---- MODULE Spec2Model ----
(***************************************************************************)
(* A model of KaayaanMCPNewsServer (src/mcp_server.py): the tool handlers  *)
(* crypto_news_analyze, crypto_news_batch_analyze and                      *)
(* crypto_market_sentiment, the batch summary they build, and the          *)
(* collaborators they call (analyzer, cache manager, webhook manager).     *)
(*                                                                         *)
(* Python values are encoded as follows.                                   *)
(*  - a dict is a TLA+ function whose DOMAIN is the set of keys present,   *)
(*    so d.get(k, default) is Get(d, k, default);                          *)
(*  - a str that the code strips is a sequence of characters;              *)
(*  - a JSON argument is a tagged record [kind, s], kind being "missing"   *)
(*    (key absent), "null", "num" (a JSON number) or "str";                *)
(*  - avg_confidence is held in tenths (an integer), so 0.0 is 0.          *)
(***************************************************************************)
EXTENDS Integers, Sequences, FiniteSets, TLC

VARIABLES
    running,          \* self.running
    cache_manager,    \* self.cache_manager: "None", "created", "connected", "disconnected"
    webhook_manager,  \* self.webhook_manager: "None" or "ready"
    analyzer,         \* self.analyzer: "None" or "loaded"
    clock,            \* what datetime.utcnow() reads: [day, tod]
    hashFn,           \* this process's salted hash() over the coin-list strings
    cache,            \* contents of the external key-value cache: key -> entry
    pc,               \* where run is: "read", "respond", "shutdown" (finally) or "done"
    req,              \* the tools/call request just handled
    resp,             \* the response returned for it
    calls,            \* the collaborator calls made while handling it, in order
    assigned,         \* the request_id generated while handling it: <<>> or <<id>>
    issued,           \* the request_ids given to the invocations answered so far
    sumIn,            \* argument of _generate_batch_summary (pure-function runs)
    sumOut,           \* its return value
    sumPc,            \* "ready" before the call, "done" after
    lines_read,       \* the lines run has read from stdin so far, in order
    stdout,           \* the responses run has printed so far, in order
    shutdowns         \* how many times shutdown has executed

vars == <<running, cache_manager, webhook_manager, analyzer, clock, hashFn, cache,
          pc, req, resp, calls, assigned, issued, sumIn, sumOut, sumPc,
          lines_read, stdout, shutdowns>>

serverVars == <<running, cache_manager, webhook_manager, analyzer>>
summaryVars == <<sumIn, sumOut, sumPc>>
runVars == <<lines_read, stdout, shutdowns>>

(***************************************************************************)
(* Bounds of the model.                                                    *)
(***************************************************************************)
MaxResults == 2      \* longest sequence of varied result records summarised
MaxCoinResults == 2  \* longest sequence of coin-bearing result records summarised

(***************************************************************************)
(* Sequence helpers.                                                       *)
(***************************************************************************)
Range(s) == {s[i] : i \in 1..Len(s)}

SeqsUpTo(S, n) == UNION {[1..k -> S] : k \in 0..n}

RECURSIVE Flatten(_)
Flatten(ss) == IF ss = <<>> THEN <<>> ELSE Head(ss) \o Flatten(Tail(ss))

RECURSIVE SumSeq(_)
SumSeq(s) == IF s = <<>> THEN 0 ELSE Head(s) + SumSeq(Tail(s))

Min(a, b) == IF a <= b THEN a ELSE b

\* The dict {}.
EmptyDict == [k \in {} |-> 0]

\* dict.get(key, default)
Get(d, k, default) == IF k \in DOMAIN d THEN d[k] ELSE default

\* Python truthiness of an error value: None and "" are falsy.
Truthy(e) == ~e.isNone /\ e.text # ""

(***************************************************************************)
(* _generate_batch_summary (src/mcp_server.py:492-546).                    *)
(***************************************************************************)
TopN == 5
HighConfidence == 75

\* The loop over results, lines 508-531, one operator per accumulator.
positive_count(results) ==
    Cardinality({i \in 1..Len(results) : Get(results[i], "impact", "Neutral") = "Positive"})

negative_count(results) ==
    Cardinality({i \in 1..Len(results) : Get(results[i], "impact", "Neutral") = "Negative"})

neutral_count_dropping_unknown(results) ==
    Cardinality({i \in 1..Len(results) : Get(results[i], "impact", "Neutral") = "Neutral"})

neutral_count(results) ==
    Cardinality({i \in 1..Len(results) :
        Get(results[i], "impact", "Neutral") \notin {"Positive", "Negative"}})

high_confidence_count_from_threshold(results) ==
    Cardinality({i \in 1..Len(results) : Get(results[i], "confidence", 0) >= HighConfidence})

high_confidence_count(results) ==
    Cardinality({i \in 1..Len(results) : Get(results[i], "confidence", 0) > HighConfidence})

low_confidence_count(results) ==
    Cardinality({i \in 1..Len(results) : ~(Get(results[i], "confidence", 0) > HighConfidence)})

NoError == [isNone |-> TRUE, text |-> ""]

error_count(results) ==
    Cardinality({i \in 1..Len(results) : Truthy(Get(results[i], "error", NoError))})

confidences(results) == [i \in 1..Len(results) |-> Get(results[i], "confidence", 0)]

all_coins(results) ==
    Flatten([i \in 1..Len(results) |-> Get(results[i], "affected_coins", <<>>)])

\* round(sum(confidences) / len(confidences), 1), in tenths. The quotient is a
\* float; a tie (ten times the quotient ending in .5) is rounded to even, which
\* is what round() does whenever the quotient is exactly representable (a
\* multiple of 1/4) -- the only ties a sequence of fewer than 20 integer
\* confidences can produce are of that kind when its length is below 8, and
\* the longer sequences of the model are uniform, with no remainder at all.
RoundTenths(sum, n) ==
    LET q == (10 * sum) \div n
        r == (10 * sum) % n
    IN  IF 2 * r < n THEN q
        ELSE IF 2 * r > n THEN q + 1
        ELSE IF q % 2 = 0 THEN q ELSE q + 1

avg_confidence_baseline_when_empty(results) ==
    IF Len(results) > 0
    THEN RoundTenths(SumSeq(confidences(results)), Len(results))
    ELSE 500

avg_confidence(results) ==
    IF Len(results) > 0
    THEN RoundTenths(SumSeq(confidences(results)), Len(results))
    ELSE 0

\* Counter(all_coins): the distinct coins in order of first insertion ...
RECURSIVE CounterKeys(_, _)
CounterKeys(coins, seen) ==
    IF coins = <<>> THEN <<>>
    ELSE IF Head(coins) \in seen THEN CounterKeys(Tail(coins), seen)
    ELSE <<Head(coins)>> \o CounterKeys(Tail(coins), seen \cup {Head(coins)})

\* ... each with its number of occurrences.
Counter(coins) ==
    LET keys == CounterKeys(coins, {})
    IN  [k \in 1..Len(keys) |->
            [coin |-> keys[k],
             mentions |-> Cardinality({i \in 1..Len(coins) : coins[i] = keys[k]})]]

\* sorted(items, key=count, reverse=True) is stable: an item goes behind every
\* item already placed whose count is at least its own.
InsertUnstable(item, sorted) ==
    LET ahead == {i \in 1..Len(sorted) : sorted[i].mentions > item.mentions}
        k == Cardinality(ahead)
    IN  SubSeq(sorted, 1, k) \o <<item>> \o SubSeq(sorted, k + 1, Len(sorted))

InsertStable(item, sorted) ==
    LET ahead == {i \in 1..Len(sorted) : sorted[i].mentions >= item.mentions}
        k == Cardinality(ahead)
    IN  SubSeq(sorted, 1, k) \o <<item>> \o SubSeq(sorted, k + 1, Len(sorted))

RECURSIVE SortedByCount(_, _)
SortedByCount(items, sorted) ==
    IF items = <<>> THEN sorted
    ELSE SortedByCount(Tail(items), InsertStable(Head(items), sorted))

\* Counter.most_common(n) is heapq.nlargest(n, items, key=count), which
\* returns what sorted(items, key=count, reverse=True)[:n] returns.
most_common(coins, n) ==
    LET s == SortedByCount(Counter(coins), <<>>)
    IN  SubSeq(s, 1, Min(n, Len(s)))

top_affected_coins(results) ==
    IF all_coins(results) # <<>> THEN most_common(all_coins(results), TopN) ELSE <<>>

_generate_batch_summary(results) ==
    [positive_count        |-> positive_count(results),
     negative_count        |-> negative_count(results),
     neutral_count         |-> neutral_count(results),
     high_confidence_count |-> high_confidence_count(results),
     low_confidence_count  |-> low_confidence_count(results),
     error_count           |-> error_count(results),
     avg_confidence        |-> avg_confidence(results),
     top_affected_coins    |-> top_affected_coins(results)]

(***************************************************************************)
(* The result records _generate_batch_summary is applied to in the         *)
(* pure-function runs: a dict with any of its keys absent.                 *)
(***************************************************************************)
OptPut(d, key, v) == IF v = <<>> THEN d ELSE d @@ (key :> v[1])

ErrorValues ==
    {[isNone |-> TRUE,  text |-> ""],        \* "error": None
     [isNone |-> FALSE, text |-> ""],        \* "error": ""
     [isNone |-> FALSE, text |-> "boom"]}    \* "error": "boom"

\* <<>> stands for "key absent", <<v>> for "key present with value v".
ImpactOptions == {<<>>, <<"Positive">>, <<"Negative">>, <<"Neutral">>, <<"Mixed">>}
ConfidenceOptions == {<<>>, <<75>>, <<76>>}
ErrorOptions == {<<>>} \cup {<<e>> : e \in ErrorValues}

VariedResults ==
    {OptPut(OptPut(OptPut([request_id |-> "r"], "impact", i), "confidence", c), "error", e) :
        i \in ImpactOptions, c \in ConfidenceOptions, e \in ErrorOptions}

CoinOrder == <<"BTC", "ETH", "SOL", "XRP", "ADA", "DOGE">>

Reverse(s) == [i \in 1..Len(s) |-> s[Len(s) + 1 - i]]

\* affected_coins lists: the runs of CoinOrder, forwards and backwards.
CoinLists ==
    {<<>>} \cup
    {SubSeq(CoinOrder, a, b) : a \in 1..Len(CoinOrder), b \in 1..Len(CoinOrder)} \cup
    {Reverse(SubSeq(CoinOrder, a, b)) : a \in 1..Len(CoinOrder), b \in 1..Len(CoinOrder)}

CoinResults ==
    {[request_id |-> "r", impact |-> "Neutral", confidence |-> 50, affected_coins |-> l] :
        l \in CoinLists}

SummaryInputs ==
    SeqsUpTo(VariedResults, MaxResults) \cup SeqsUpTo(CoinResults, MaxCoinResults)

(***************************************************************************)
(* JSON-RPC envelopes (src/mcp_server.py:82-104).                          *)
(***************************************************************************)
None == [none |-> TRUE]

\* str(e) of a caught exception e.
str_of(exc) == [text |-> exc]

create_mcp_error(code, message, data) ==
    IF data # None
    THEN [code |-> code, message |-> message, data |-> data]
    ELSE [code |-> code, message |-> message]

create_mcp_response_with_null_result(id, result, error) ==
    IF error # None
    THEN [jsonrpc |-> "2.0", id |-> id, error |-> error, result |-> None]
    ELSE [jsonrpc |-> "2.0", id |-> id, result |-> result]

create_mcp_response(id, result, error) ==
    IF error # None
    THEN [jsonrpc |-> "2.0", id |-> id, error |-> error]
    ELSE [jsonrpc |-> "2.0", id |-> id, result |-> result]

IsError(r) == "error" \in DOMAIN r
IsResult(r) == "result" \in DOMAIN r

(***************************************************************************)
(* What a handler hands back: either an exception that leaves it, or its   *)
(* response; with the collaborator calls it made, the request_id it        *)
(* generated (<<>> when it generated none) and the cache as it left it.    *)
(***************************************************************************)
Raise(exc, made, rid, store) ==
    [raised |-> TRUE, exc |-> exc, calls |-> made, assigned |-> rid, cache |-> store]

Return(response, made, rid, store) ==
    [raised |-> FALSE, resp |-> response, calls |-> made, assigned |-> rid, cache |-> store]

\* One call of a collaborator: what was called, with what, and what came back.
Call(fn, args, ret) == [fn |-> fn, args |-> args, ret |-> ret]

(***************************************************************************)
(* Strings and JSON argument values.                                       *)
(***************************************************************************)
Str(chars) == [kind |-> "str", s |-> chars]
Null == [kind |-> "null", s |-> <<>>]
IsStr(v) == v.kind = "str"

\* A JSON object, as the dict json.loads makes of it.
Dict(d) == [kind |-> "dict", d |-> d]
IsDict(v) == v.kind = "dict"

Whitespace == {" ", "\n"}

RECURSIVE lstrip(_)
lstrip(s) == IF s # <<>> /\ Head(s) \in Whitespace THEN lstrip(Tail(s)) ELSE s

RECURSIVE rstrip(_)
rstrip(s) ==
    IF s # <<>> /\ s[Len(s)] \in Whitespace THEN rstrip(SubSeq(s, 1, Len(s) - 1)) ELSE s

\* str.strip()
strip(s) == rstrip(lstrip(s))

\* datetime.utcnow().strftime('%H%M%S%f'): the time of day, not the date.
strftime_HMSf(now) == now.tod

\* datetime.utcnow().isoformat() + "Z"
isoformat(now) == [day |-> now.day, tod |-> now.tod, zone |-> "Z"]

RequestId(prefix, now) == [prefix |-> prefix, hmsf |-> strftime_HMSf(now)]

(***************************************************************************)
(* _handle_single_analysis (src/mcp_server.py:250-283).                    *)
(* world.single is what analyzer.analyze_single does if it is called.      *)
(***************************************************************************)
_handle_single_analysis(id, arguments, world) ==
    LET title_arg == Get(arguments, "title", Str(<<>>))
        summary_arg == Get(arguments, "summary", Str(<<>>))
        source_arg == Get(arguments, "source", Str(<<>>))
    IN  IF ~(IsStr(title_arg) /\ IsStr(summary_arg) /\ IsStr(source_arg))
        THEN \* .strip() of a value that is no str
             Raise("AttributeError", <<>>, <<>>, world.cache)
        ELSE
        LET title == strip(title_arg.s)
            summary == strip(summary_arg.s)
            source == strip(source_arg.s)
        IN  IF title = <<>> \/ summary = <<>>
            THEN Return(create_mcp_response(id, None,
                            create_mcp_error(-32602,
                                "Invalid params: title and summary required", None)),
                        <<>>, <<>>, world.cache)
            ELSE
            LET request_id == RequestId("mcp_single", world.now)
                made == <<Call("analyzer.analyze_single", <<title, summary, request_id>>,
                               world.single)>>
            IN  IF world.single.kind = "raise"
                THEN Return(create_mcp_response(id, None,
                                create_mcp_error(-32603, "Analysis failed", str_of("AnalyzerError"))),
                            made, <<request_id>>, world.cache)
                ELSE
                LET result == ("request_id" :> request_id) @@ world.single.result
                    with_source == IF source # <<>>
                                   THEN ("source" :> source) @@ result
                                   ELSE result
                    response_data ==
                        ("analysis_id" :> request_id) @@
                        ("timestamp" :> isoformat(world.now)) @@ with_source
                IN  Return(create_mcp_response(id, response_data, None),
                           made, <<request_id>>, world.cache)

(***************************************************************************)
(* _handle_batch_analysis (src/mcp_server.py:285-335).                     *)
(* world.batch is what analyzer.analyze_batch does if it is called,        *)
(* world.webhook what webhook_manager.send_batch_results does.             *)
(***************************************************************************)
BatchLimit == 50

List(items) == [kind |-> "list", items |-> items]
NonList == [kind |-> "object", items |-> <<>>]
NullItems == [kind |-> "null", items |-> <<>>]

\* not news_items or not isinstance(news_items, list)
NotAnArray(news_items) == news_items.kind # "list" \/ news_items.items = <<>>

ExceedsLimitOffByOne(news_items) == Len(news_items.items) > BatchLimit + 1

\* len(news_items) > 50
ExceedsLimit(news_items) == Len(news_items.items) > BatchLimit

\* "source" in news_items[i] raises TypeError when the item is a number.
ItemIsContainer(item) == item.kind = "dict"

SourceOfFirst(news_items, k) ==
    IF ItemIsContainer(news_items[1]) /\ "source" \in DOMAIN news_items[1].d
    THEN news_items[1].d.source
    ELSE news_items[k].d.source

\* news_items[i]["source"], for the result at (1-based) position k.
SourceOf(news_items, k) == news_items[k].d.source

\* The body of the loop at lines 307-313 for the result at position k,
\* whose enumerate() index is k - 1.
WithMetadata(result, k, news_items, request_id) ==
    LET i == k - 1
        indexed == ("item_index" :> i) @@
                   ("analysis_id" :> [request_id |-> request_id, item |-> i]) @@ result
    IN  IF i < Len(news_items) /\ "source" \in DOMAIN news_items[k].d
        THEN ("source" :> SourceOf(news_items, k)) @@ indexed
        ELSE indexed

\* The loop raises at the first position whose input item is not a container.
LoopRaises(results, news_items) ==
    \E k \in 1..Len(results) : k - 1 < Len(news_items) /\ ~ItemIsContainer(news_items[k])

_handle_batch_analysis(id, arguments, world) ==
    LET news_items == Get(arguments, "news_items", List(<<>>))
    IN  IF NotAnArray(news_items)
        THEN Return(create_mcp_response(id, None,
                        create_mcp_error(-32602,
                            "Invalid params: news_items array required", None)),
                    <<>>, <<>>, world.cache)
        ELSE IF ExceedsLimit(news_items)
        THEN Return(create_mcp_response(id, None,
                        create_mcp_error(-32602,
                            "Batch size limit exceeded (max 50 items)", None)),
                    <<>>, <<>>, world.cache)
        ELSE
        LET items == news_items.items
            request_id == RequestId("mcp_batch", world.now)
            analyzed == <<Call("analyzer.analyze_batch", <<items, request_id>>, world.batch)>>
            failed(data, made) ==
                Return(create_mcp_response(id, None,
                           create_mcp_error(-32603, "Batch analysis failed", str_of(data))),
                       made, <<request_id>>, world.cache)
        IN  IF world.batch.kind = "raise"
            THEN failed("AnalyzerError", analyzed)
            ELSE IF LoopRaises(world.batch.results, items)
            THEN failed("TypeError", analyzed)
            ELSE
            LET results == [k \in 1..Len(world.batch.results) |->
                               WithMetadata(world.batch.results[k], k, items, request_id)]
                made == IF world.webhook_manager # "None"
                        THEN analyzed \o
                             <<Call("webhook_manager.send_batch_results",
                                    <<results, request_id>>, world.webhook)>>
                        ELSE analyzed
            IN  IF world.webhook_manager # "None" /\ world.webhook = "raised"
                THEN failed("WebhookError", made)
                ELSE
                LET response_data ==
                        [results     |-> results,
                         total_items |-> Len(results),
                         request_id  |-> request_id,
                         timestamp   |-> isoformat(world.now),
                         summary     |-> _generate_batch_summary(results)]
                IN  Return(create_mcp_response(id, response_data, None),
                           made, <<request_id>>, world.cache)

(***************************************************************************)
(* _handle_market_sentiment and _calculate_market_sentiment                *)
(* (src/mcp_server.py:337-365, 470-490).                                   *)
(***************************************************************************)
SentimentTtl == 1800

\* Python's order on the coin symbols of the model (str comparison).
LexOrder == <<"ADA", "BTC", "DOGE", "ETH", "SOL", "XRP">>

\* a < b
Before(a, b) ==
    LET rank == [c \in Range(LexOrder) |-> CHOOSE i \in 1..Len(LexOrder) : LexOrder[i] = c]
    IN  rank[a] < rank[b]

\* sorted(specific_coins), as a stable insertion sort.
RECURSIVE sorted(_)
sorted(coins) ==
    IF coins = <<>> THEN <<>>
    ELSE LET rest == sorted(Tail(coins))
             k == Cardinality({i \in 1..Len(rest) : Before(rest[i], Head(coins))})
         IN  SubSeq(rest, 1, k) \o <<Head(coins)>> \o SubSeq(rest, k + 1, Len(rest))

\* f"market_sentiment:{timeframe}:{hash(str(sorted(specific_coins)))}"; str()
\* of a list of strings determines the list, so the list stands for its str().
cache_key(timeframe, specific_coins, hash) ==
    [prefix |-> "market_sentiment", timeframe |-> timeframe,
     hash |-> hash[sorted(specific_coins)]]

\* cache_manager.get(key): the stored value, or None.
CacheGet(store, key) ==
    IF \E e \in store : e.key = key
    THEN (CHOOSE e \in store : e.key = key).value
    ELSE None

\* cache_manager.set(key, value, ttl)
CacheSet(store, key, value, ttl) ==
    {e \in store : e.key # key} \cup {[key |-> key, value |-> value, ttl |-> ttl]}

_calculate_market_sentiment(timeframe, specific_coins, now) ==
    LET sentiment_data ==
            [timeframe           |-> timeframe,
             overall_sentiment   |-> "Neutral",
             confidence          |-> 50,
             analyzed_items      |-> 0,
             sentiment_breakdown |-> [positive |-> 0, negative |-> 0, neutral |-> 0],
             top_coins_mentioned |-> <<>>,
             timestamp           |-> isoformat(now)]
    IN  IF specific_coins # <<>>
        THEN ("filtered_coins" :> specific_coins) @@ sentiment_data
        ELSE sentiment_data

_handle_market_sentiment(id, arguments, world) ==
    LET timeframe == Get(arguments, "timeframe", "24h")
        coins_arg == Get(arguments, "coins", List(<<>>))
    IN  IF coins_arg.kind # "list"
        THEN \* sorted(None) raises inside the try block
             Return(create_mcp_response(id, None,
                        create_mcp_error(-32603, "Market sentiment analysis failed",
                                         str_of("TypeError"))),
                    <<>>, <<>>, world.cache)
        ELSE
        LET specific_coins == coins_arg.items
            key == cache_key(timeframe, specific_coins, world.hash)
            cached_sentiment == CacheGet(world.cache, key)
            got == <<Call("cache_manager.get", <<key>>, cached_sentiment)>>
        IN  IF cached_sentiment # None
            THEN Return(create_mcp_response(id, cached_sentiment, None),
                        got, <<>>, world.cache)
            ELSE
            LET sentiment_data ==
                    _calculate_market_sentiment(timeframe, specific_coins, world.now)
                made == got \o
                        <<Call("_calculate_market_sentiment", <<timeframe, specific_coins>>,
                               sentiment_data),
                          Call("cache_manager.set", <<key, sentiment_data, SentimentTtl>>,
                               None)>>
            IN  Return(create_mcp_response(id, sentiment_data, None), made, <<>>,
                       CacheSet(world.cache, key, sentiment_data, SentimentTtl))

(***************************************************************************)
(* _handle_keyword_analysis (src/mcp_server.py:367-422).                   *)
(* world.keyword is what the analyzer's keyword and coin detection do.     *)
(***************************************************************************)
\* str.lower()
lower(s) == [i \in DOMAIN s |-> IF s[i] = "A" THEN "a" ELSE s[i]]

_handle_keyword_analysis(id, arguments, world) ==
    LET text_arg == Get(arguments, "text", Str(<<>>))
    IN  IF ~IsStr(text_arg)
        THEN Raise("AttributeError", <<>>, <<>>, world.cache)
        ELSE
        LET text == strip(text_arg.s)
        IN  IF text = <<>>
            THEN Return(create_mcp_response(id, None,
                            create_mcp_error(-32602, "Invalid params: text required", None)),
                        <<>>, <<>>, world.cache)
            ELSE
            LET made == <<Call("analyzer._keyword_analysis", <<lower(text)>>, world.keyword)>>
            IN  IF world.keyword.kind = "raise"
                THEN Return(create_mcp_response(id, None,
                                create_mcp_error(-32603, "Keyword analysis failed",
                                                 str_of("AnalyzerError"))),
                            made, <<>>, world.cache)
                ELSE Return(create_mcp_response(id,
                                ("analysis_timestamp" :> isoformat(world.now)) @@
                                world.keyword.result, None),
                            made, <<>>, world.cache)

(***************************************************************************)
(* _handle_health_check (src/mcp_server.py:424-468).                       *)
(* world.health is what cache_manager.is_connected and get_stats do.       *)
(***************************************************************************)
_handle_health_check(id, arguments, world) ==
    LET made == <<Call("cache_manager.is_connected", <<>>, world.health)>>
    IN  IF world.health.kind = "raise"
        THEN Return(create_mcp_response(id, None,
                        create_mcp_error(-32603, "Health check failed",
                                         str_of("ConnectionError"))),
                    made, <<>>, world.cache)
        ELSE
        LET health_data ==
                [server_name |-> "kaayaan-mcp-news",
                 version     |-> "2.1.0",
                 status      |-> "healthy",
                 timestamp   |-> isoformat(world.now),
                 components  |->
                     [redis_cache   |-> IF world.health.redis_healthy
                                        THEN "healthy" ELSE "unhealthy",
                      news_analyzer |-> "healthy"]]
        IN  Return(create_mcp_response(id, health_data, None), made, <<>>, world.cache)

(***************************************************************************)
(* handle_tool_call (src/mcp_server.py:215-248). params.get (lines 217-218)*)
(* is outside the try block: an exception it raises leaves the function.   *)
(***************************************************************************)
handle_tool_call(id, params, world) ==
    IF ~IsDict(params)
    THEN Raise("AttributeError", <<>>, <<>>, world.cache)
    ELSE
    LET tool_name == Get(params.d, "name", "None")
        arguments == Get(params.d, "arguments", EmptyDict)
        handled ==
            IF tool_name = "crypto_news_analyze"
            THEN _handle_single_analysis(id, arguments, world)
            ELSE IF tool_name = "crypto_news_batch_analyze"
            THEN _handle_batch_analysis(id, arguments, world)
            ELSE IF tool_name = "crypto_market_sentiment"
            THEN _handle_market_sentiment(id, arguments, world)
            ELSE IF tool_name = "crypto_impact_keywords"
            THEN _handle_keyword_analysis(id, arguments, world)
            ELSE IF tool_name = "server_health_check"
            THEN _handle_health_check(id, arguments, world)
            ELSE Return(create_mcp_response(id, None,
                            create_mcp_error(-32601, "Unknown tool", None)),
                        <<>>, <<>>, world.cache)
    IN  IF handled.raised
        THEN Return(create_mcp_response(id, None,
                        create_mcp_error(-32603, "Internal server error", str_of(handled.exc))),
                    handled.calls, handled.assigned, handled.cache)
        ELSE handled

(***************************************************************************)
(* Environment of the server.                                              *)
(***************************************************************************)
NoRequest == [name |-> "none"]
NoResponse == [kind |-> "none"]
NoSummary == [called |-> FALSE]

\* The clock: a day is TimesOfDay ticks long, and Days days are observed.
TimesOfDay == {0, 1}
Days == {0, 1}
Midnight == [day |-> 0, tod |-> 0]


\* hash() of this process over str(sorted(coins)): any function into the
\* hash values, chosen when the process starts (PYTHONHASHSEED).
CoinFilters == {<<>>, <<"BTC", "ETH">>, <<"ETH", "BTC">>}
HashValues == {0, 1}
HashFns == [{sorted(f) : f \in CoinFilters} -> HashValues]
FixedHash == [l \in {sorted(f) : f \in CoinFilters} |-> 0]

\* The JSON-RPC ids of the requests.
JsonRpcIds == {1, 2}

(***************************************************************************)
(* The arguments the tools are called with.                                *)
(***************************************************************************)
TextOptions ==
    {<<>>, <<Null>>, <<Str(<<>>)>>, <<Str(<<" ">>)>>, <<Str(<<" ", "a", " ">>)>>}

SourceOptions == {<<>>, <<Null>>, <<Str(<<" ">>)>>, <<Str(<<" ", "s", " ">>)>>}

SingleArguments ==
    {OptPut(OptPut(OptPut(EmptyDict, "title", t), "summary", s), "source", src) :
        t \in TextOptions, s \in TextOptions, src \in SourceOptions}

NumberItem == [kind |-> "num", d |-> EmptyDict]

Item(source) == Dict(OptPut([title |-> "t", summary |-> "s"], "source", source))

ItemValues == {Item(<<>>), Item(<<"s1">>), Item(<<"s2">>), NumberItem}

MaxItems == 2

\* Batches around the limit: every item from source "s1" but the last.
LongBatches ==
    {[i \in 1..n |-> IF i = n THEN Item(<<"s2">>) ELSE Item(<<"s1">>)] :
        n \in {BatchLimit - 1, BatchLimit, BatchLimit + 1}}

ItemLists == SeqsUpTo(ItemValues, MaxItems) \cup LongBatches

BatchArguments ==
    {OptPut(EmptyDict, "news_items", n) :
        n \in {<<>>, <<NullItems>>, <<NonList>>} \cup {<<List(l)>> : l \in ItemLists}}

TimeframeOptions == {<<>>, <<"1h">>, <<"24h">>}
CoinsOptions == {<<>>, <<NullItems>>} \cup {<<List(f)>> : f \in CoinFilters}

SentimentArguments ==
    {OptPut(OptPut(EmptyDict, "timeframe", t), "coins", c) :
        t \in TimeframeOptions, c \in CoinsOptions}

(***************************************************************************)
(* The collaborators: what a call of theirs may do.                        *)
(***************************************************************************)
Raises == [kind |-> "raise"]

Scored == [impact |-> "Positive", confidence |-> 80, affected_coins |-> <<"BTC">>]
Unscored == [impact |-> "Neutral", confidence |-> 0, affected_coins |-> <<>>,
             error |-> [isNone |-> FALSE, text |-> "boom"]]

\* analyzer.analyze_single: an AnalysisResult, or an exception.
AnalyzeSingleOutcomes ==
    {Raises, [kind |-> "ok", result |-> Scored],
     [kind |-> "ok", result |-> [impact |-> "Neutral", confidence |-> 50,
                                 affected_coins |-> <<>>]]}

\* analyzer.analyze_batch: one result per item, in input order, an item that
\* could not be scored carrying error; or an exception.
AnalyzeBatchOutcomes(items) ==
    {Raises}
    \cup {[kind |-> "ok", results |-> [i \in 1..Len(items) |-> r]] : r \in {Scored, Unscored}}
    \cup (IF Len(items) <= MaxItems
          THEN {[kind |-> "ok", results |-> rs] : rs \in [1..Len(items) -> {Scored, Unscored}]}
          ELSE {})

\* webhook_manager.send_batch_results: delivered, not delivered, or an exception.
WebhookOutcomes == {"delivered", "failed", "raised"}

(***************************************************************************)
(* The server: construction, initialize, and the tools/call requests.      *)
(***************************************************************************)
\* __init__ (src/mcp_server.py:42-48), in a process whose clock and hash
\* salt are whatever they are.
Init ==
    /\ running = TRUE
    /\ cache_manager = "None"
    /\ webhook_manager = "None"
    /\ analyzer = "None"
    /\ clock \in {[day |-> 0, tod |-> t] : t \in TimesOfDay}
    /\ hashFn = FixedHash
    /\ cache = {}
    /\ pc = "read"
    /\ req = NoRequest
    /\ resp = NoResponse
    /\ calls = <<>>
    /\ assigned = <<>>
    /\ issued = {}
    /\ sumIn = <<>>
    /\ sumOut = NoSummary
    /\ sumPc = "idle"
    /\ lines_read = <<>>
    /\ stdout = <<>>
    /\ shutdowns = 0

\* initialize (src/mcp_server.py:50-70), every component coming up.
Initialize ==
    /\ pc = "read"
    /\ cache_manager = "None"
    /\ cache_manager' = "connected"
    /\ webhook_manager' = "ready"
    /\ analyzer' = "loaded"
    /\ UNCHANGED <<running, clock, hashFn, cache, pc, req, resp, calls, assigned, issued,
                   summaryVars, runVars>>

\* Time passes while run waits for the next line.
Tick ==
    /\ pc = "read"
    /\ \/ /\ clock.tod + 1 \in TimesOfDay
          /\ clock' = [day |-> clock.day, tod |-> clock.tod + 1]
       \/ /\ clock.tod + 1 \notin TimesOfDay
          /\ clock.day + 1 \in Days
          /\ clock' = [day |-> clock.day + 1, tod |-> 0]
    /\ UNCHANGED <<serverVars, hashFn, cache, pc, req, resp, calls, assigned, issued,
                   summaryVars, runVars>>

World(single, batch, webhook) ==
    [now |-> clock, cache |-> cache, hash |-> hashFn, webhook_manager |-> webhook_manager,
     single |-> single, batch |-> batch, webhook |-> webhook]

\* One tools/call request, handled by handle_tool_call from start to end.
ToolCall(id, name, arguments, world) ==
    LET out == handle_tool_call(id, Dict([name |-> name, arguments |-> arguments]), world)
    IN  /\ analyzer = "loaded"
        /\ pc = "read"
        /\ pc' = "respond"
        /\ req' = [id |-> id, name |-> name, arguments |-> arguments]
        /\ resp' = out.resp
        /\ calls' = out.calls
        /\ assigned' = out.assigned
        /\ cache' = out.cache
        /\ UNCHANGED <<serverVars, clock, hashFn, issued, summaryVars, runVars>>

CallSingleAnalysis ==
    \E id \in JsonRpcIds, arguments \in SingleArguments, single \in AnalyzeSingleOutcomes :
        ToolCall(id, "crypto_news_analyze", arguments, World(single, Raises, "delivered"))

CallBatchAnalysis ==
    \E id \in JsonRpcIds, arguments \in BatchArguments, webhook \in WebhookOutcomes :
        \E batch \in AnalyzeBatchOutcomes(Get(arguments, "news_items", List(<<>>)).items) :
            ToolCall(id, "crypto_news_batch_analyze", arguments,
                     World(Raises, batch, webhook))

CallUnknownTool ==
    \E id \in JsonRpcIds :
        ToolCall(id, "crypto_price", EmptyDict, World(Raises, Raises, "delivered"))

\* print(json.dumps(response), flush=True) (src/mcp_server.py:620), and back
\* to the top of the loop: the request and its response are gone.
Respond ==
    /\ pc = "respond"
    /\ pc' = "read"
    /\ req' = NoRequest
    /\ resp' = NoResponse
    /\ calls' = <<>>
    /\ assigned' = <<>>
    /\ issued' = issued \cup Range(assigned)
    /\ UNCHANGED <<serverVars, clock, hashFn, cache, summaryVars, runVars>>

Next ==
    \/ Initialize
    \/ Tick
    \/ CallSingleAnalysis
    \/ CallBatchAnalysis
    \/ CallUnknownTool
    \/ Respond

Spec == Init /\ [][Next]_vars

(***************************************************************************)
(* The market-sentiment runs: the tool called over and over against the    *)
(* external cache, whose entries expire, by a server that may be restarted *)
(* (a new process, with a new hash salt) while the cache lives on.         *)
(***************************************************************************)
SentimentInit ==
    /\ running = TRUE
    /\ cache_manager = "None"
    /\ webhook_manager = "None"
    /\ analyzer = "None"
    /\ clock = Midnight
    /\ hashFn \in HashFns
    /\ cache = {}
    /\ pc = "read"
    /\ req = NoRequest
    /\ resp = NoResponse
    /\ calls = <<>>
    /\ assigned = <<>>
    /\ issued = {}
    /\ sumIn = <<>>
    /\ sumOut = NoSummary
    /\ sumPc = "idle"
    /\ lines_read = <<>>
    /\ stdout = <<>>
    /\ shutdowns = 0

CallMarketSentiment ==
    \E id \in JsonRpcIds, arguments \in SentimentArguments :
        ToolCall(id, "crypto_market_sentiment", arguments, World(Raises, Raises, "delivered"))

\* An entry's TTL runs out.
Expire ==
    /\ pc = "read"
    /\ \E e \in cache : cache' = cache \ {e}
    /\ UNCHANGED <<serverVars, clock, hashFn, pc, req, resp, calls, assigned, issued,
                   summaryVars, runVars>>

\* The process ends and main() (src/mcp_server.py:637-645) builds a new server.
Restart ==
    /\ analyzer = "loaded"
    /\ pc = "read"
    /\ running' = TRUE
    /\ cache_manager' = "None"
    /\ webhook_manager' = "None"
    /\ analyzer' = "None"
    /\ hashFn' \in HashFns
    /\ UNCHANGED <<clock, cache, pc, req, resp, calls, assigned, issued, summaryVars, runVars>>

SentimentNext ==
    \/ Initialize
    \/ CallMarketSentiment
    \/ Respond
    \/ Expire
    \/ Restart

SentimentSpec == SentimentInit /\ [][SentimentNext]_vars

(***************************************************************************)
(* The pure-function runs: _generate_batch_summary applied once to an      *)
(* arbitrary sequence of result records.                                   *)
(***************************************************************************)
SummaryInit ==
    /\ running = TRUE
    /\ cache_manager = "None"
    /\ webhook_manager = "None"
    /\ analyzer = "None"
    /\ clock = Midnight
    /\ hashFn = FixedHash
    /\ cache = {}
    /\ pc = "read"
    /\ req = NoRequest
    /\ resp = NoResponse
    /\ calls = <<>>
    /\ assigned = <<>>
    /\ issued = {}
    /\ sumIn \in SummaryInputs
    /\ sumOut = NoSummary
    /\ sumPc = "ready"
    /\ lines_read = <<>>
    /\ stdout = <<>>
    /\ shutdowns = 0

Summarize ==
    /\ sumPc = "ready"
    /\ sumOut' = _generate_batch_summary(sumIn)
    /\ sumPc' = "done"
    /\ UNCHANGED <<serverVars, clock, hashFn, cache, pc, req, resp, calls, assigned,
                   issued, sumIn, runVars>>

SummaryNext == Summarize

SummarySpec == SummaryInit /\ [][SummaryNext]_vars

(***************************************************************************)
(* handle_tools_list and handle_request (src/mcp_server.py:106-213,        *)
(* 548-579). request_data.get (lines 550-552) raises when the parsed line  *)
(* is not a JSON object.                                                   *)
(***************************************************************************)
ToolNames ==
    <<"crypto_news_analyze", "crypto_news_batch_analyze", "crypto_market_sentiment",
      "crypto_impact_keywords", "server_health_check">>

handle_tools_list(id) == create_mcp_response(id, [tools |-> ToolNames], None)

handle_request(request_data, world) ==
    IF ~IsDict(request_data)
    THEN Raise("AttributeError", <<>>, <<>>, world.cache)
    ELSE
    LET method == Get(request_data.d, "method", "None")
        params == Get(request_data.d, "params", Dict(EmptyDict))
        id == Get(request_data.d, "id", None)
    IN  IF method = "initialize"
        THEN Return(create_mcp_response(id,
                        [protocolVersion |-> "2024-11-05",
                         capabilities    |-> [tools |-> EmptyDict],
                         serverInfo      |-> [name |-> "kaayaan-mcp-news",
                                              version |-> "2.1.0"]], None),
                    <<>>, <<>>, world.cache)
        ELSE IF method = "tools/list"
        THEN Return(handle_tools_list(id), <<>>, <<>>, world.cache)
        ELSE IF method = "tools/call"
        THEN handle_tool_call(id, params, world)
        ELSE Return(create_mcp_response(id, None,
                        create_mcp_error(-32601, "Method not found", None)),
                    <<>>, <<>>, world.cache)

(***************************************************************************)
(* The lines of stdin. A line is its whitespace (pad) around its body;     *)
(* readline returns the empty string at end of input.                      *)
(***************************************************************************)
NoBody == [kind |-> "none"]
Garbage == [kind |-> "text"]
Json(value) == [kind |-> "json", value |-> value]

Line(pad, body) == [pad |-> pad, body |-> body]
Eof == Line(<<>>, NoBody)
BlankLines == {Line(<<"\n">>, NoBody), Line(<<" ", "\n">>, NoBody)}

\* json.loads(line): the value, or JSONDecodeError.
json_loads(body) ==
    IF body.kind = "json" THEN [ok |-> TRUE, value |-> body.value] ELSE [ok |-> FALSE]

JsonId(n) == [num |-> n]

Request(method, id, params) ==
    Dict(OptPut(OptPut(OptPut(EmptyDict, "method", method), "id", id), "params", params))

Params(name, arguments) == Dict(OptPut(OptPut(EmptyDict, "name", name), "arguments", arguments))

ToolsCall(n, params) == Request(<<"tools/call">>, <<JsonId(n)>>, params)

RequestValues ==
    {Request(<<>>, <<>>, <<>>),
     Request(<<"initialize">>, <<JsonId(1)>>, <<>>),
     Request(<<"tools/list">>, <<JsonId(1)>>, <<>>),
     Request(<<"resources/list">>, <<JsonId(1)>>, <<>>),
     ToolsCall(1, <<>>),
     ToolsCall(2, <<Null>>),
     ToolsCall(1, <<Params(<<"crypto_price">>, <<>>)>>),
     ToolsCall(1, <<Params(<<"crypto_news_analyze">>,
                           <<[title |-> Str(<<"a">>), summary |-> Str(<<"a">>)]>>)>>),
     ToolsCall(2, <<Params(<<"crypto_news_analyze">>, <<>>)>>),
     ToolsCall(1, <<Params(<<"crypto_news_analyze">>, <<[title |-> Null]>>)>>),
     ToolsCall(2, <<Params(<<"crypto_news_batch_analyze">>,
                           <<[news_items |-> List(<<Item(<<"s1">>)>>)]>>)>>),
     ToolsCall(1, <<Params(<<"crypto_market_sentiment">>, <<>>)>>),
     ToolsCall(1, <<Params(<<"crypto_impact_keywords">>, <<[text |-> Str(<<"A">>)]>>)>>),
     ToolsCall(2, <<Params(<<"crypto_impact_keywords">>, <<>>)>>),
     ToolsCall(1, <<Params(<<"server_health_check">>, <<>>)>>)}

\* The lines that are not the end of input.
Lines ==
    BlankLines
    \cup {Line(<<"\n">>, Garbage), Line(<<"\n">>, Json(NumberItem))}
    \cup {Line(<<"\n">>, Json(r)) : r \in RequestValues}

MaxLines == 2

(***************************************************************************)
(* What the collaborators may do during one request.                       *)
(***************************************************************************)
KeywordOutcomes ==
    {Raises, [kind |-> "ok", result |-> [impact |-> "Positive", confidence |-> 60]]}

HealthOutcomes ==
    {Raises, [kind |-> "ok", redis_healthy |-> TRUE], [kind |-> "ok", redis_healthy |-> FALSE]}

RunWorld(single, batch, webhook, keyword, health) ==
    World(single, batch, webhook) @@ [keyword |-> keyword, health |-> health]

\* The tool a line asks for ("None" when it asks for none).
ToolOf(line) ==
    LET parsed == json_loads(line.body)
    IN  IF parsed.ok /\ IsDict(parsed.value)
           /\ Get(parsed.value.d, "method", "None") = "tools/call"
           /\ IsDict(Get(parsed.value.d, "params", Dict(EmptyDict)))
        THEN Get(Get(parsed.value.d, "params", Dict(EmptyDict)).d, "name", "None")
        ELSE "None"

\* The collaborators' behaviours that matter to a line: those of the tool it calls.
Worlds(line) ==
    LET tool == ToolOf(line)
    IN  IF tool = "crypto_news_analyze"
        THEN {RunWorld(s, Raises, "delivered", Raises, Raises) : s \in AnalyzeSingleOutcomes}
        ELSE IF tool = "crypto_news_batch_analyze"
        THEN {RunWorld(Raises, b, w, Raises, Raises) :
                 b \in AnalyzeBatchOutcomes(<<Item(<<"s1">>)>>), w \in WebhookOutcomes}
        ELSE IF tool = "crypto_impact_keywords"
        THEN {RunWorld(Raises, Raises, "delivered", k, Raises) : k \in KeywordOutcomes}
        ELSE IF tool = "server_health_check"
        THEN {RunWorld(Raises, Raises, "delivered", Raises, h) : h \in HealthOutcomes}
        ELSE {RunWorld(Raises, Raises, "delivered", Raises, Raises)}

(***************************************************************************)
(* run (src/mcp_server.py:581-630): initialize, the message loop, and      *)
(* shutdown in the finally block.                                          *)
(***************************************************************************)
shutdown_leaving_connection(cm) == [running |-> FALSE, cache_manager |-> cm]

\* shutdown (src/mcp_server.py:72-80), applied to self.cache_manager.
shutdown(cm) ==
    [running |-> FALSE, cache_manager |-> IF cm # "None" THEN "disconnected" ELSE cm]

\* The statement of initialize that raises, when one does.
InitializeStages == {"CacheManager", "connect", "WebhookManager", "CryptoNewsAnalyzer"}

RunInit ==
    /\ running = TRUE
    /\ cache_manager = "None"
    /\ webhook_manager = "None"
    /\ analyzer = "None"
    /\ clock = Midnight
    /\ hashFn = FixedHash
    /\ cache = {}
    /\ pc = "read"
    /\ req = NoRequest
    /\ resp = NoResponse
    /\ calls = <<>>
    /\ assigned = <<>>
    /\ issued = {}
    /\ sumIn = <<>>
    /\ sumOut = NoSummary
    /\ sumPc = "idle"
    /\ lines_read = <<>>
    /\ stdout = <<>>
    /\ shutdowns = 0

\* initialize raises (lines 68-70) and run goes to its finally block.
InitializeFails ==
    /\ pc = "read"
    /\ cache_manager = "None"
    /\ analyzer = "None"
    /\ \E stage \in InitializeStages :
          /\ cache_manager' = IF stage = "CacheManager" THEN "None"
                              ELSE IF stage = "connect" THEN "created"
                              ELSE "connected"
          /\ webhook_manager' = IF stage = "CryptoNewsAnalyzer" THEN "ready" ELSE "None"
    /\ pc' = "shutdown"
    /\ UNCHANGED <<running, analyzer, clock, hashFn, cache, req, resp, calls, assigned,
                   issued, summaryVars, runVars>>

\* `not line` after strip (lines 600-602).
IsBlank(line) == strip(line.pad) = <<>> /\ line.body = NoBody

\* One iteration of the loop on a line that is not the end of input, up to
\* the print of its response.
ReadLine ==
    /\ pc = "read"
    /\ running = TRUE
    /\ analyzer = "loaded"
    /\ Len(lines_read) < MaxLines
    /\ \E line \in Lines : \E world \in Worlds(line) :
          LET parsed == json_loads(line.body)
              out == handle_request(parsed.value, world)
          IN  /\ lines_read' = Append(lines_read, line)
              /\ IF IsBlank(line)
                 THEN \* continue
                      /\ pc' = "read"
                      /\ req' = NoRequest
                      /\ resp' = NoResponse
                      /\ UNCHANGED <<calls, assigned, cache>>
                 ELSE IF ~parsed.ok
                 THEN \* except json.JSONDecodeError (lines 607-614)
                      /\ pc' = "respond"
                      /\ req' = NoRequest
                      /\ resp' = create_mcp_response(None, None,
                                     create_mcp_error(-32700, "Parse error", None))
                      /\ UNCHANGED <<calls, assigned, cache>>
                 ELSE IF out.raised
                 THEN \* except Exception (lines 625-627): logged, next iteration
                      /\ pc' = "read"
                      /\ req' = NoRequest
                      /\ resp' = NoResponse
                      /\ calls' = out.calls
                      /\ assigned' = out.assigned
                      /\ cache' = out.cache
                 ELSE /\ pc' = "respond"
                      /\ req' = parsed.value
                      /\ resp' = out.resp
                      /\ calls' = out.calls
                      /\ assigned' = out.assigned
                      /\ cache' = out.cache
    /\ UNCHANGED <<serverVars, clock, hashFn, issued, summaryVars, stdout, shutdowns>>

\* readline returns "" (lines 596-598): break.
ReadEof ==
    /\ pc = "read"
    /\ running = TRUE
    /\ analyzer = "loaded"
    /\ lines_read' = Append(lines_read, Eof)
    /\ pc' = "shutdown"
    /\ UNCHANGED <<serverVars, clock, hashFn, cache, req, resp, calls, assigned, issued,
                   summaryVars, stdout, shutdowns>>

\* print(json.dumps(...), flush=True) (lines 613, 620), then the next iteration.
PrintResponse ==
    /\ pc = "respond"
    /\ stdout' = Append(stdout, resp)
    /\ pc' = "read"
    /\ req' = NoRequest
    /\ resp' = NoResponse
    /\ calls' = <<>>
    /\ assigned' = <<>>
    /\ issued' = issued \cup Range(assigned)
    /\ UNCHANGED <<serverVars, clock, hashFn, cache, summaryVars, lines_read, shutdowns>>

\* except KeyboardInterrupt (lines 622-624): break, wherever the iteration is.
Interrupt ==
    /\ pc \in {"read", "respond"}
    /\ analyzer = "loaded"
    /\ pc' = "shutdown"
    /\ req' = NoRequest
    /\ resp' = NoResponse
    /\ UNCHANGED <<serverVars, clock, hashFn, cache, calls, assigned, issued,
                   summaryVars, runVars>>

\* finally: await self.shutdown() (lines 629-630).
Shutdown ==
    /\ pc = "shutdown"
    /\ running' = shutdown(cache_manager).running
    /\ cache_manager' = shutdown(cache_manager).cache_manager
    /\ shutdowns' = shutdowns + 1
    /\ pc' = "done"
    /\ UNCHANGED <<webhook_manager, analyzer, clock, hashFn, cache, req, resp, calls,
                   assigned, issued, summaryVars, lines_read, stdout>>

RunNext ==
    \/ Initialize
    \/ InitializeFails
    \/ ReadLine
    \/ ReadEof
    \/ PrintResponse
    \/ Interrupt
    \/ Shutdown

RunSpec == RunInit /\ [][RunNext]_vars

\* The finally block, once entered, runs to its end.
FairRunSpec == RunSpec /\ WF_vars(Shutdown)

(***************************************************************************)
(* Claims about _generate_batch_summary.                                   *)
(***************************************************************************)
Occurrences(c, s) == Cardinality({i \in 1..Len(s) : s[i] = c})
FirstIndex(c, s) == CHOOSE i \in 1..Len(s) : s[i] = c /\ \A j \in 1..(i - 1) : s[j] # c

\* C1: for every sequence of result records, whatever each record's impact is
\* (also missing or unrecognized), positive_count + negative_count +
\* neutral_count of the summary equals the number of records.
C1_ImpactCountsPartition ==
    sumPc = "done" =>
        sumOut.positive_count + sumOut.negative_count + sumOut.neutral_count = Len(sumIn)

C1_Witness ==
    /\ sumPc = "done"
    /\ Len(sumIn) = 2
    /\ "impact" \notin DOMAIN sumIn[1]
    /\ "impact" \in DOMAIN sumIn[2] /\ sumIn[2].impact = "Mixed"
    /\ sumOut.neutral_count = 2

\* C6: the summary of the empty sequence has every count 0, avg_confidence 0.0
\* and an empty top_affected_coins list (and is returned, not raised).
C6_EmptySummary ==
    (sumPc = "done" /\ sumIn = <<>>) =>
        /\ sumOut.positive_count = 0
        /\ sumOut.negative_count = 0
        /\ sumOut.neutral_count = 0
        /\ sumOut.high_confidence_count = 0
        /\ sumOut.low_confidence_count = 0
        /\ sumOut.error_count = 0
        /\ sumOut.avg_confidence = 0
        /\ sumOut.top_affected_coins = <<>>

C6_Witness == sumPc = "done" /\ sumIn = <<>> /\ sumOut.avg_confidence = 0

\* C7: top_affected_coins lists at most 5 coins, each with its exact number of
\* mentions across all results' affected_coins, in non-increasing order of
\* mentions; no omitted coin has more mentions than a listed one; among coins
\* with equal mentions the one first seen earlier in the flattened sequence of
\* mentions is ranked first, and is the one kept.
C7_TopCoins ==
    sumPc = "done" =>
        LET top == sumOut.top_affected_coins
            flat == Flatten([i \in 1..Len(sumIn) |->
                        IF "affected_coins" \in DOMAIN sumIn[i]
                        THEN sumIn[i].affected_coins ELSE <<>>])
            listed == {top[i].coin : i \in 1..Len(top)}
        IN  /\ Len(top) = Min(5, Cardinality(Range(flat)))
            /\ listed \subseteq Range(flat)
            /\ \A i, j \in 1..Len(top) : i # j => top[i].coin # top[j].coin
            /\ \A i \in 1..Len(top) : top[i].mentions = Occurrences(top[i].coin, flat)
            /\ \A i, j \in 1..Len(top) : i < j =>
                   \/ top[i].mentions > top[j].mentions
                   \/ /\ top[i].mentions = top[j].mentions
                      /\ FirstIndex(top[i].coin, flat) < FirstIndex(top[j].coin, flat)
            /\ \A c \in Range(flat) \ listed : \A i \in 1..Len(top) :
                   \/ Occurrences(c, flat) < top[i].mentions
                   \/ /\ Occurrences(c, flat) = top[i].mentions
                      /\ FirstIndex(top[i].coin, flat) < FirstIndex(c, flat)

\* Six coins are mentioned; two of them twice, the later-listed one first.
C7_Witness ==
    /\ sumPc = "done"
    /\ Len(sumIn) = 2
    /\ \A i \in 1..2 : "affected_coins" \in DOMAIN sumIn[i]
    /\ sumIn[1].affected_coins = CoinOrder
    /\ sumIn[2].affected_coins = <<"DOGE", "ADA">>
    /\ sumOut.top_affected_coins =
          <<[coin |-> "ADA", mentions |-> 2], [coin |-> "DOGE", mentions |-> 2],
            [coin |-> "BTC", mentions |-> 1], [coin |-> "ETH", mentions |-> 1],
            [coin |-> "SOL", mentions |-> 1]>>

\* C11: a result is counted in high_confidence_count exactly when it has a
\* confidence strictly greater than 75; a confidence of exactly 75, or none at
\* all, counts in low_confidence_count; and high_confidence_count +
\* low_confidence_count equals the number of results.
C11_ConfidencePartition ==
    sumPc = "done" =>
        LET high == {i \in 1..Len(sumIn) :
                        "confidence" \in DOMAIN sumIn[i] /\ sumIn[i].confidence > 75}
        IN  /\ sumOut.high_confidence_count = Cardinality(high)
            /\ sumOut.low_confidence_count = Len(sumIn) - Cardinality(high)
            /\ sumOut.high_confidence_count + sumOut.low_confidence_count = Len(sumIn)

\* One result at exactly 75 and one without a confidence, both counted low.
C11_Witness ==
    /\ sumPc = "done"
    /\ Len(sumIn) = 2
    /\ "confidence" \in DOMAIN sumIn[1] /\ sumIn[1].confidence = 75
    /\ "confidence" \notin DOMAIN sumIn[2]
    /\ sumOut.high_confidence_count = 0
    /\ sumOut.low_confidence_count = 2

\* C10 (as claimed): error_count equals the number of records whose error
\* field is set, a record whose error field is present but empty included.
C10_ErrorCountCountsEverySetError ==
    sumPc = "done" =>
        sumOut.error_count =
            Cardinality({i \in 1..Len(sumIn) :
                "error" \in DOMAIN sumIn[i] /\ ~sumIn[i].error.isNone})

(***************************************************************************)
(* Claims about the tool handlers. Each is read off the state in which run *)
(* is about to print the response: req, resp, the calls made, the id       *)
(* generated.                                                              *)
(***************************************************************************)
Answering(tool) == pc = "respond" /\ req.name = tool

CallsOf(fn) == {i \in 1..Len(calls) : calls[i].fn = fn}

\* C2: in a successful crypto_news_batch_analyze response the result at
\* position i carries item_index = i and analysis_id = <request_id>_item_<i>,
\* and, when input item i has a source, the source of input item i;
\* total_items is the number of results.
C2_BatchOrderPreserved ==
    (Answering("crypto_news_batch_analyze") /\ IsResult(resp)) =>
        LET input == req.arguments.news_items.items
            out == resp.result.results
        IN  /\ resp.result.total_items = Len(out)
            /\ \A k \in 1..Len(out) :
                /\ out[k].item_index = k - 1
                /\ out[k].analysis_id =
                       [request_id |-> resp.result.request_id, item |-> k - 1]
                /\ (k <= Len(input) /\ "source" \in DOMAIN input[k].d) =>
                       /\ "source" \in DOMAIN out[k]
                       /\ out[k].source = input[k].d.source

C2_Witness ==
    /\ Answering("crypto_news_batch_analyze")
    /\ IsResult(resp)
    /\ req.arguments.news_items.items = <<Item(<<"s1">>), Item(<<"s2">>)>>
    /\ Len(resp.result.results) = 2
    /\ resp.result.results[1].source = "s1"
    /\ resp.result.results[2].source = "s2"
    /\ resp.result.results[2].item_index = 1
    /\ resp.result.total_items = 2

\* C3 (as claimed): for crypto_news_analyze, a title or summary that is
\* missing, empty or whitespace-only gets error -32602 with the analyzer never
\* invoked and no request_id generated; with both non-empty the analyzer is
\* invoked exactly once.
C3_SingleValidation ==
    Answering("crypto_news_analyze") =>
        LET IsText(key) == key \in DOMAIN req.arguments /\ req.arguments[key].kind = "str"
            Blank(key) ==
                \/ key \notin DOMAIN req.arguments
                \/ /\ IsText(key)
                   /\ \A i \in 1..Len(req.arguments[key].s) : req.arguments[key].s[i] = " "
            NonEmpty(key) ==
                /\ IsText(key)
                /\ \E i \in 1..Len(req.arguments[key].s) : req.arguments[key].s[i] # " "
        IN  /\ (Blank("title") \/ Blank("summary")) =>
                /\ IsError(resp)
                /\ resp.error.code = -32602
                /\ calls = <<>>
                /\ assigned = <<>>
            /\ (NonEmpty("title") /\ NonEmpty("summary")) =>
                Cardinality(CallsOf("analyzer.analyze_single")) = 1

\* C4: crypto_news_batch_analyze with more than 50 news_items, or with
\* news_items empty, absent or not a list, returns error -32602 without
\* invoking the analyzer or the webhook manager; with 1 to 50 items the
\* analyzer is invoked exactly once, with all the items.
C4_BatchSizeLimit ==
    Answering("crypto_news_batch_analyze") =>
        LET isList == /\ "news_items" \in DOMAIN req.arguments
                      /\ req.arguments.news_items.kind = "list"
            size == IF isList THEN Len(req.arguments.news_items.items) ELSE 0
        IN  IF size = 0 \/ size > 50
            THEN /\ IsError(resp)
                 /\ resp.error.code = -32602
                 /\ calls = <<>>
            ELSE /\ Cardinality(CallsOf("analyzer.analyze_batch")) = 1
                 /\ calls[1].fn = "analyzer.analyze_batch"
                 /\ calls[1].args[1] = req.arguments.news_items.items

C4_Witness ==
    /\ Answering("crypto_news_batch_analyze")
    /\ "news_items" \in DOMAIN req.arguments
    /\ req.arguments.news_items.kind = "list"
    /\ Len(req.arguments.news_items.items) = 51
    /\ IsError(resp)
    /\ resp.error.code = -32602
    /\ calls = <<>>

\* C5 (as claimed): whatever the webhook delivery does -- succeed, fail or
\* raise -- crypto_news_batch_analyze returns the successful response, with
\* the results that were handed to the webhook and their summary.
C5_WebhookFireAndForget ==
    (Answering("crypto_news_batch_analyze")
        /\ CallsOf("webhook_manager.send_batch_results") # {}) =>
        LET sent == calls[CHOOSE i \in CallsOf("webhook_manager.send_batch_results") : TRUE]
        IN  /\ IsResult(resp)
            /\ resp.result.results = sent.args[1]
            /\ resp.result.total_items = Len(sent.args[1])

\* C9 (as claimed): no two invocations of an analysis tool handled by one
\* server receive the same request_id.
C9_RequestIdsUnique ==
    (pc = "respond" /\ assigned # <<>>) => assigned[1] \notin issued

\* C8 (as claimed): a market-sentiment result is computed once on a miss and
\* stored under its key for 1800 seconds; while that entry is present every
\* request with the same timeframe and coin filter is answered with it,
\* unchanged, without recomputing or writing; and a request with another
\* timeframe or another coin set is never answered with it.
C8_SentimentMemoized ==
    (Answering("crypto_market_sentiment") /\ IsResult(resp)) =>
        LET timeframe == IF "timeframe" \in DOMAIN req.arguments
                         THEN req.arguments.timeframe ELSE "24h"
            coins == IF "coins" \in DOMAIN req.arguments
                     THEN req.arguments.coins.items ELSE <<>>
            FilterOf(v) == IF "filtered_coins" \in DOMAIN v THEN v.filtered_coins ELSE <<>>
            key == calls[1].args[1]
            hit == calls[1].ret # None
        IN  /\ calls[1].fn = "cache_manager.get"
            /\ hit =>
                /\ Len(calls) = 1
                /\ resp.result = calls[1].ret
                /\ resp.result.timeframe = timeframe
                /\ Range(FilterOf(resp.result)) = Range(coins)
            /\ ~hit =>
                /\ Len(calls) = 3
                /\ calls[2].fn = "_calculate_market_sentiment"
                /\ calls[3].fn = "cache_manager.set"
                /\ calls[3].args = <<key, resp.result, 1800>>
                /\ [key |-> key, value |-> resp.result, ttl |-> 1800] \in cache
                /\ \A e \in cache :
                       e.key # key =>
                           ~(e.value.timeframe = timeframe /\ FilterOf(e.value) = coins)

(***************************************************************************)
(* Claims about run and handle_request.                                    *)
(***************************************************************************)
IsContent(line) == ~IsBlank(line)

ParseError ==
    [jsonrpc |-> "2.0", id |-> None, error |-> [code |-> -32700, message |-> "Parse error"]]

\* C12 (as claimed): whenever run is about to read a line, it has written
\* exactly one response for every non-blank line read so far, in the order of
\* the lines: the -32700 Parse error response with id null for a line that is
\* not valid JSON, and for a line that parses as JSON, whatever its shape, the
\* response of the handler (carrying the id of the request when the line is an
\* object); blank lines got no response.
C12_OneResponsePerLine ==
    pc = "read" =>
        LET content == SelectSeq(lines_read, IsContent)
        IN  /\ Len(stdout) = Len(content)
            /\ \A k \in 1..Len(content) :
                   LET parsed == json_loads(content[k].body)
                   IN  IF ~parsed.ok
                       THEN stdout[k] = ParseError
                       ELSE IsDict(parsed.value) =>
                                stdout[k].id = Get(parsed.value.d, "id", None)

KnownMethods == {"initialize", "tools/list", "tools/call"}

UnknownMethod(request) == Get(request.d, "method", "None") \notin KnownMethods

UnknownTool(request) ==
    /\ Get(request.d, "method", "None") = "tools/call"
    /\ IsDict(Get(request.d, "params", Dict(EmptyDict)))
    /\ Get(Get(request.d, "params", Dict(EmptyDict)).d, "name", "None") \notin Range(ToolNames)

\* C13: every response handle_request returns has jsonrpc "2.0", the id of the
\* request it answers (null when the request has none) and exactly one of the
\* members result and error; for an unknown method or an unknown tool name it
\* is an error with code -32601, and no call of the analyzer, the cache or the
\* webhook manager was made.
C13_ResponseEnvelope ==
    (pc = "respond" /\ req # NoRequest) =>
        /\ resp.jsonrpc = "2.0"
        /\ resp.id = Get(req.d, "id", None)
        /\ IsError(resp) # IsResult(resp)
        /\ DOMAIN resp \subseteq {"jsonrpc", "id", "result", "error"}
        /\ (UnknownMethod(req) \/ UnknownTool(req)) =>
               /\ IsError(resp)
               /\ resp.error.code = -32601
               /\ calls = <<>>

\* A tools/call of a tool the server does not have is about to be answered.
C13_Witness ==
    /\ pc = "respond"
    /\ req = ToolsCall(1, <<Params(<<"crypto_price">>, <<>>)>>)
    /\ resp.id = JsonId(1)
    /\ resp.error.code = -32601
    /\ calls = <<>>

\* C14: once the end of input is read, run ends; whenever run has ended (after
\* the end of input, a KeyboardInterrupt or a failure of initialize), shutdown
\* has executed exactly once, running is False and the cache manager, if one
\* was created, is disconnected; shutdown never executes while run is still
\* going; and reading a line other than the end of input, whatever its
\* handling raises, leaves run in its loop.
C14_ShutdownOnEveryExit ==
    /\ [](pc = "done" =>
            /\ shutdowns = 1
            /\ running = FALSE
            /\ cache_manager \in {"None", "disconnected"})
    /\ [](pc # "done" => shutdowns = 0 /\ running = TRUE)
    /\ [][(pc = "read" /\ lines_read' # lines_read
            /\ lines_read'[Len(lines_read')] # Eof) => pc' \in {"read", "respond"}]_vars
    /\ ((lines_read # <<>> /\ lines_read[Len(lines_read)] = Eof) ~> pc = "done")

\* run has ended at the end of input, after a line whose handling raised and
\* a line that was answered; the cache manager is disconnected.
C14_Witness ==
    /\ pc = "done"
    /\ shutdowns = 1
    /\ running = FALSE
    /\ cache_manager = "disconnected"
    /\ lines_read = <<Line(<<"\n">>, Json(NumberItem)),
                      Line(<<"\n">>, Json(Request(<<"tools/list">>, <<JsonId(1)>>, <<>>))),
                      Eof>>
    /\ Len(stdout) = 1

====
